---- MODULE Spec2Model ----
(***************************************************************************)
(* Model of convert.py: a command-line script that converts Word           *)
(* documents to LaTeX by running pandoc, one bundle directory per          *)
(* document, and zips each bundle.                                         *)
(*                                                                         *)
(* A file name is a tuple of characters, a path a tuple of names below a   *)
(* common root.  The file system is the set of directories, the set of     *)
(* regular files and the entry list of every zip archive.  pandoc is an    *)
(* external process: its exit status and what it extracts are chosen       *)
(* nondeterministically, its writes go where its command line says.        *)
(***************************************************************************)
EXTENDS Integers, Sequences, FiniteSets, TLC

VARIABLES
    platform,     \* "posix" or "nt": decides the case rule of Path.glob
    out_opt,      \* the output directory every call of the behaviour is given (or None)
    dirs,         \* paths that are directories
    files,        \* paths that are regular files
    zips,         \* archive path -> set of entry names (each a relative path)
    pc,           \* position of the running call
    entry,        \* "main" (command line) or "api" (batch_convert called directly)
    mode,         \* "single" or "batch"
    args,         \* the parsed command line of main()
    bat,          \* arguments of the running batch_convert call
    docx_files,   \* batch_convert: the enumerated candidates
    idx,          \* batch_convert: position of the loop in docx_files
    attempts,     \* batch_convert: the candidates handed to convert_docx_to_latex, in order
    converted,    \* batch_convert: the list being returned
    reported,     \* batch_convert: the per-item errors printed to stderr
    conv,         \* locals of the running convert_docx_to_latex call
    exc,          \* exception raised by the running convert_docx_to_latex call
    top_exc,      \* exception that reached the caller of the top-level operation
    exit_code,    \* exit status of main(), -1 while it has not exited
    runs,         \* pandoc invocations of the running top-level call: <<[cmd, rc]>>
    nruns         \* top-level calls started so far

vars == <<platform, out_opt, dirs, files, zips, pc, entry, mode, args, bat, docx_files, idx,
          attempts, converted, reported, conv, exc, top_exc, exit_code, runs, nruns>>

fsvars == <<dirs, files, zips>>

\* Bounds of the model.
MaxFiles == 2      \* children of the input directory drawn in Init
MaxRuns == 2       \* top-level calls in one behaviour

(***************************************************************************)
(* Names and paths                                                         *)
(***************************************************************************)
DotDocx == <<".", "d", "o", "c", "x">>
DotTex == <<".", "t", "e", "x">>
DotZip == <<".", "z", "i", "p">>
MediaName == <<"m", "e", "d", "i", "a">>

N_a_docx == <<"a", ".", "d", "o", "c", "x">>
N_b_docx == <<"b", ".", "d", "o", "c", "x">>
N_b_DOCX == <<"b", ".", "D", "O", "C", "X">>
N_c_txt == <<"c", ".", "t", "x", "t">>
N_hidden == <<".", "d", "o", "c", "x">>
N_s_docx == <<"s", ".", "d", "o", "c", "x">>
N_img1 == <<"i", "1", ".", "p", "n", "g">>
N_img2 == <<"i", "2", ".", "p", "n", "g">>
N_x == <<"x">>

\* The names drawn for the children of the input directory.
ChildNames == {N_a_docx, N_b_docx, N_b_DOCX, N_c_txt, N_hidden}

InDir == << <<"i", "n">> >>
SubDir == << <<"i", "n">>, <<"s", "u", "b">> >>
OutDir == << <<"o", "u", "t">> >>
BlkFile == << <<"b", "l", "k">> >>       \* a regular file where a directory is asked for

\* What pandoc may extract, as paths relative to <dir>/media.
MediaChoices == { {}, { <<N_img1>>, <<N_x, N_img2>> } }

Some(p) == [some |-> TRUE, path |-> p]
None == [some |-> FALSE, path |-> <<>>]

Max(S) == CHOOSE m \in S : \A k \in S : k <= m

\* str.lower() on the characters that occur.
Lower(c) ==
    CASE c = "A" -> "a" [] c = "B" -> "b" [] c = "C" -> "c" [] c = "D" -> "d"
      [] c = "O" -> "o" [] c = "X" -> "x" [] OTHER -> c

LowerSeq(n) == [i \in 1..Len(n) |-> Lower(n[i])]

\* str.rfind, 1-based; 0 when the character does not occur.
RFind(n, ch) ==
    LET I == {i \in 1..Len(n) : n[i] = ch}
    IN  IF I = {} THEN 0 ELSE Max(I)

\* PurePath.suffix: from the last dot, unless that dot is the first or the last character.
Suffix(n) ==
    LET j == RFind(n, ".")
    IN  IF 1 < j /\ j < Len(n) THEN SubSeq(n, j, Len(n)) ELSE <<>>

\* PurePath.stem: the name without its suffix.
Stem(n) ==
    LET j == RFind(n, ".")
    IN  IF 1 < j /\ j < Len(n) THEN SubSeq(n, 1, j - 1) ELSE n

Parent(p) == SubSeq(p, 1, Len(p) - 1)
NameOf(p) == p[Len(p)]
Prefixes(p) == {SubSeq(p, 1, k) : k \in 0..Len(p)}
IsUnder(p, q) == Len(q) > Len(p) /\ SubSeq(q, 1, Len(p)) = p

Exists(p) == p \in dirs \cup files
IsDir(p) == p \in dirs
IsFile(p) == p \in files

\* Path.mkdir(parents=True, exist_ok=True): fails when the path is a regular
\* file (FileExistsError) or an ancestor is one (NotADirectoryError), otherwise
\* every missing directory of the path is made.
MkdirFails(p) == \E q \in Prefixes(p) : q \in files
MkdirError(p) == IF p \in files THEN "FileExistsError" ELSE "NotADirectoryError"
MkdirDirs(p) == dirs \cup Prefixes(p)

Perms(S) == {f \in [1..Cardinality(S) -> S] : \A i, j \in 1..Cardinality(S) : f[i] = f[j] => i = j}

(***************************************************************************)
(* convert_docx_to_latex                                                   *)
(***************************************************************************)
Tok(o) == [o |-> o, p |-> <<>>]
Arg(p) == [o |-> "path", p |-> p]

NoConv ==
    [input_path |-> <<>>, output_dir |-> None, standalone |-> TRUE, extract_media |-> TRUE,
     doc_name |-> <<>>, doc_dir |-> <<>>, output_path |-> <<>>, cmd |-> <<>>,
     made_dir |-> FALSE, ran |-> 0, zipped |-> FALSE]

NewConv(input_file, output_dir, kw) ==
    [NoConv EXCEPT !.input_path = input_file, !.output_dir = output_dir,
                   !.standalone = kw.standalone, !.extract_media = kw.extract_media]

\* Faulty variant that C3 must tell apart: the bundle directory is made before the input is checked.
ConvValidate_MkdirFirst ==
    /\ pc = "conv_validate"
    /\ dirs' = dirs \cup Prefixes(Append(IF conv.output_dir.some THEN conv.output_dir.path
                                         ELSE Parent(conv.input_path),
                                         Stem(NameOf(conv.input_path))))
    /\ exc' = (IF ~Exists(conv.input_path) THEN "FileNotFoundError"
               ELSE IF ~(LowerSeq(Suffix(NameOf(conv.input_path))) = DotDocx) THEN "ValueError"
               ELSE "none")
    /\ pc' = IF exc' = "none" THEN "conv_mkdir" ELSE "conv_ret"
    /\ UNCHANGED <<platform, out_opt, files, zips, entry, mode, args, bat, docx_files, idx,
                   attempts, converted, reported, conv, top_exc, exit_code, runs, nruns>>

\* Lines 34-38: the two checks on the input path.
Validate(p) ==
    IF ~Exists(p) THEN "FileNotFoundError"
    ELSE IF ~(LowerSeq(Suffix(NameOf(p))) = DotDocx) THEN "ValueError"
    ELSE "none"

ConvValidate ==
    /\ pc = "conv_validate"
    /\ exc' = Validate(conv.input_path)
    /\ pc' = IF exc' = "none" THEN "conv_mkdir" ELSE "conv_ret"
    /\ UNCHANGED <<platform, out_opt, dirs, files, zips, entry, mode, args, bat, docx_files, idx,
                   attempts, converted, reported, conv, top_exc, exit_code, runs, nruns>>

\* Faulty variant that C5 must tell apart: the output directory is ignored.
DocDir_IgnoresOutput(input_path, output_dir) ==
    Append(Parent(input_path), Stem(NameOf(input_path)))

\* Faulty variant that C10 must tell apart: no subdirectory per document.
DocDir_NoSubdir(input_path, output_dir) ==
    IF output_dir.some THEN output_dir.path ELSE Parent(input_path)

\* Lines 41-43: the bundle directory of an input.
DocDir(input_path, output_dir) ==
    LET doc_name == Stem(NameOf(input_path))
        parent_dir == IF output_dir.some THEN output_dir.path ELSE Parent(input_path)
    IN  Append(parent_dir, doc_name)

\* Line 46.
OutputPath(doc_dir, doc_name) == Append(doc_dir, doc_name \o DotTex)

\* Faulty variant that C6 must tell apart: the two optional flags change places.
BuildCmd_Swapped(input_path, standalone, extract_media, doc_dir, output_path) ==
    <<Tok("pandoc"), Arg(input_path)>>
        \o (IF extract_media THEN <<Tok("--extract-media"), Arg(doc_dir)>> ELSE <<>>)
        \o (IF standalone THEN <<Tok("-s")>> ELSE <<>>)
        \o <<Tok("-o"), Arg(output_path)>>

\* Lines 48-56: the pandoc command line.
BuildCmd(input_path, standalone, extract_media, doc_dir, output_path) ==
    <<Tok("pandoc"), Arg(input_path)>>
        \o (IF standalone THEN <<Tok("-s")>> ELSE <<>>)
        \o (IF extract_media THEN <<Tok("--extract-media"), Arg(doc_dir)>> ELSE <<>>)
        \o <<Tok("-o"), Arg(output_path)>>

ConvMkdir ==
    /\ pc = "conv_mkdir"
    /\ LET doc_name == Stem(NameOf(conv.input_path))
           doc_dir == DocDir(conv.input_path, conv.output_dir)
           output_path == OutputPath(doc_dir, doc_name)
       IN  IF MkdirFails(doc_dir)
           THEN /\ exc' = MkdirError(doc_dir)
                /\ pc' = "conv_ret"
                /\ conv' = [conv EXCEPT !.doc_name = doc_name, !.doc_dir = doc_dir]
                /\ UNCHANGED dirs
           ELSE /\ dirs' = MkdirDirs(doc_dir)
                /\ conv' = [conv EXCEPT !.doc_name = doc_name, !.doc_dir = doc_dir,
                                        !.output_path = output_path, !.made_dir = TRUE,
                                        !.cmd = BuildCmd(conv.input_path, conv.standalone,
                                                         conv.extract_media, doc_dir,
                                                         output_path)]
                /\ pc' = "conv_run"
                /\ UNCHANGED exc
    /\ UNCHANGED <<platform, out_opt, files, zips, entry, mode, args, bat, docx_files, idx,
                   attempts, converted, reported, top_exc, exit_code, runs, nruns>>


\* The path that follows option opt on a command line, None when opt is absent.
ArgAfter(cmd, opt) ==
    LET I == {i \in 1..(Len(cmd) - 1) : cmd[i] = Tok(opt)}
    IN  IF I = {} THEN None ELSE Some(cmd[(CHOOSE i \in I : \A k \in I : i <= k) + 1].p)

\* The external tool.  Exit status 0: the output file is written and, when
\* --extract-media is given, some set of media files; any other status: nothing
\* or a partial output file.
PandocOutcomes(cmd) ==
    {[rc |-> 0, tex |-> TRUE, media |-> m] :
        m \in IF ArgAfter(cmd, "--extract-media").some THEN MediaChoices ELSE {{}}}
    \cup {[rc |-> 1, tex |-> t, media |-> {}] : t \in BOOLEAN}

PandocFiles(cmd, o) ==
    (IF o.tex THEN {ArgAfter(cmd, "-o").path} ELSE {})
    \cup {Append(ArgAfter(cmd, "--extract-media").path, MediaName) \o r : r \in o.media}

\* Faulty variant that C9 must tell apart: only a negative status counts as failure.
Failed_Negative(rc) == rc < 0

\* Line 62.
Failed(rc) == rc # 0

\* Lines 60-65: one subprocess.run, then the exit status is looked at.
ConvRun ==
    /\ pc = "conv_run"
    /\ \E o \in PandocOutcomes(conv.cmd) :
          LET written == PandocFiles(conv.cmd, o)
          IN  /\ files' = files \cup written
              /\ dirs' = dirs \cup UNION {Prefixes(Parent(f)) : f \in written}
              /\ runs' = Append(runs, [cmd |-> conv.cmd, rc |-> o.rc])
              /\ conv' = [conv EXCEPT !.ran = @ + 1]
              /\ IF Failed(o.rc)
                 THEN exc' = "RuntimeError" /\ pc' = "conv_ret"
                 ELSE exc' = exc /\ pc' = "conv_zip"
    /\ UNCHANGED <<platform, out_opt, zips, entry, mode, args, bat, docx_files, idx,
                   attempts, converted, reported, top_exc, exit_code, nruns>>

(***************************************************************************)
(* create_zip_archive                                                      *)
(***************************************************************************)
\* Path.rglob("*"): everything below d.
RGlob(d) == {q \in dirs \cup files : IsUnder(d, q)}

RelativeTo(q, d) == SubSeq(q, Len(d) + 1, Len(q))

\* Line 85.
ZipPath(doc_dir, doc_name) == Append(doc_dir, doc_name \o DotZip)

\* Faulty variant that C2 must tell apart: only the immediate children of media are archived.
ZipEntries_Flat(doc_dir, doc_name) ==
    LET tex_file == Append(doc_dir, doc_name \o DotTex)
        media_dir == Append(doc_dir, MediaName)
    IN  (IF Exists(tex_file) THEN { <<NameOf(tex_file)>> } ELSE {})
        \cup {<<MediaName>> \o RelativeTo(media_file, media_dir) :
                 media_file \in {q \in files : Len(q) = Len(media_dir) + 1 /\ IsUnder(media_dir, q)}}

\* Lines 87-99: the entries written to the archive.
ZipEntries(doc_dir, doc_name) ==
    LET tex_file == Append(doc_dir, doc_name \o DotTex)
        media_dir == Append(doc_dir, MediaName)
    IN  (IF Exists(tex_file) THEN { <<NameOf(tex_file)>> } ELSE {})
        \cup (IF Exists(media_dir)
              THEN {<<MediaName>> \o RelativeTo(media_file, media_dir) :
                        media_file \in {q \in RGlob(media_dir) : IsFile(q)}}
              ELSE {})

\* Lines 68-71 and 74-101.
ConvZip ==
    /\ pc = "conv_zip"
    /\ LET zip_path == ZipPath(conv.doc_dir, conv.doc_name)
           entries == ZipEntries(conv.doc_dir, conv.doc_name)
       IN  /\ files' = files \cup {zip_path}
           /\ zips' = [p \in DOMAIN zips \cup {zip_path} |->
                          IF p = zip_path THEN entries ELSE zips[p]]
    /\ conv' = [conv EXCEPT !.zipped = TRUE]
    /\ pc' = "conv_ret"
    /\ UNCHANGED <<platform, out_opt, dirs, entry, mode, args, bat, docx_files, idx, attempts,
                   converted, reported, exc, top_exc, exit_code, runs, nruns>>

(***************************************************************************)
(* batch_convert                                                           *)
(***************************************************************************)
NoBat == [input_dir |-> <<>>, output_dir |-> None, kw |-> [standalone |-> TRUE, extract_media |-> TRUE]]

\* Line 124.
BatchOutput(b) == IF b.output_dir.some THEN b.output_dir.path ELSE b.input_dir

\* fnmatch of a name against "*.docx": Path.glob compares case-sensitively on
\* posix and case-insensitively on nt.
MatchDocx(n) ==
    LET m == IF platform = "nt" THEN LowerSeq(n) ELSE n
    IN  Len(m) >= Len(DotDocx) /\ SubSeq(m, Len(m) - Len(DotDocx) + 1, Len(m)) = DotDocx

\* Line 131: the immediate children of d (files or directories) that match.
GlobDocx(d, D, F) == {q \in D \cup F : Len(q) = Len(d) + 1 /\ Parent(q) = d /\ MatchDocx(NameOf(q))}

\* Lines 123-137.
BatchBegin ==
    /\ pc = "batch_begin"
    /\ LET input_path == bat.input_dir
           output_path == BatchOutput(bat)
           done == IF entry = "main" THEN "main_end" ELSE "returned"
       IN  IF ~IsDir(input_path)
           THEN /\ top_exc' = "NotADirectoryError"
                /\ pc' = done
                /\ UNCHANGED <<dirs, docx_files, idx>>
           ELSE IF MkdirFails(output_path)
           THEN /\ top_exc' = MkdirError(output_path)
                /\ pc' = done
                /\ UNCHANGED <<dirs, docx_files, idx>>
           ELSE /\ dirs' = MkdirDirs(output_path)
                /\ docx_files' \in Perms(GlobDocx(input_path, dirs', files))
                /\ idx' = 1
                /\ pc' = IF docx_files' = <<>> THEN "batch_ret" ELSE "batch_loop"
                /\ UNCHANGED top_exc
    /\ UNCHANGED <<platform, out_opt, files, zips, entry, mode, args, bat, attempts, converted,
                   reported, conv, exc, exit_code, runs, nruns>>

\* Lines 140-142: the loop takes the next candidate, or ends.
BatchIter ==
    /\ pc = "batch_loop"
    /\ IF idx <= Len(docx_files)
       THEN /\ conv' = NewConv(docx_files[idx], Some(BatchOutput(bat)), bat.kw)
            /\ attempts' = Append(attempts, docx_files[idx])
            /\ exc' = "none"
            /\ pc' = "conv_validate"
       ELSE /\ pc' = "batch_ret"
            /\ UNCHANGED <<conv, attempts, exc>>
    /\ UNCHANGED <<platform, out_opt, dirs, files, zips, entry, mode, args, bat, docx_files, idx,
                   converted, reported, top_exc, exit_code, runs, nruns>>

\* Faulty variant that C1 must tell apart: the first failing item ends the loop.
BatchItemDone_StopOnError ==
    /\ pc = "conv_ret"
    /\ mode = "batch"
    /\ IF exc = "none"
       THEN converted' = Append(converted, conv.output_path) /\ idx' = idx + 1
            /\ UNCHANGED reported
       ELSE reported' = Append(reported, [name |-> NameOf(conv.input_path), exc |-> exc])
            /\ idx' = Len(docx_files) + 1
            /\ UNCHANGED converted
    /\ pc' = "batch_loop"
    /\ UNCHANGED <<platform, out_opt, dirs, files, zips, entry, mode, args, bat, docx_files,
                   attempts, conv, exc, top_exc, exit_code, runs, nruns>>

\* Lines 143-145: the call returned or raised.
BatchItemDone ==
    /\ pc = "conv_ret"
    /\ mode = "batch"
    /\ IF exc = "none"
       THEN converted' = Append(converted, conv.output_path) /\ UNCHANGED reported
       ELSE reported' = Append(reported, [name |-> NameOf(conv.input_path), exc |-> exc])
            /\ UNCHANGED converted
    /\ idx' = idx + 1
    /\ pc' = "batch_loop"
    /\ UNCHANGED <<platform, out_opt, dirs, files, zips, entry, mode, args, bat, docx_files,
                   attempts, conv, exc, top_exc, exit_code, runs, nruns>>

\* Lines 135 and 147.
BatchReturn ==
    /\ pc = "batch_ret"
    /\ pc' = IF entry = "main" THEN "main_end" ELSE "returned"
    /\ UNCHANGED <<platform, out_opt, dirs, files, zips, entry, mode, args, bat, docx_files, idx,
                   attempts, converted, reported, conv, exc, top_exc, exit_code, runs, nruns>>

(***************************************************************************)
(* main                                                                    *)
(***************************************************************************)
NoArgs == [input |-> <<>>, output |-> None, no_standalone |-> FALSE, no_media |-> FALSE]

\* Lines 178-181.
Kwargs(a) == [standalone |-> ~a.no_standalone, extract_media |-> ~a.no_media]

\* Faulty variant that C4 must tell apart: a reported item makes the exit status 1.
ExitStatus_ItemErrors(e) == IF e # "none" \/ reported # <<>> THEN 1 ELSE 0

\* Lines 183-191: 1 when the operation raised, else the interpreter's 0.
ExitStatus(e) == IF e # "none" THEN 1 ELSE 0

MainInputs == {InDir} \cup {Append(InDir, n) : n \in ChildNames}
Outputs == {None, Some(OutDir), Some(BlkFile)}
ArgSet == [input : MainInputs, output : {out_opt}, no_standalone : BOOLEAN, no_media : BOOLEAN]

CanStart == pc \in {"idle", "exited", "returned"} /\ nruns < MaxRuns

\* Lines 173-188: the command line is parsed and the operation chosen.
Main(a) ==
    /\ CanStart
    /\ nruns' = nruns + 1
    /\ entry' = "main"
    /\ args' = a
    /\ IF IsDir(a.input)
       THEN /\ mode' = "batch"
            /\ bat' = [input_dir |-> a.input, output_dir |-> a.output, kw |-> Kwargs(a)]
            /\ conv' = NoConv
            /\ pc' = "batch_begin"
       ELSE /\ mode' = "single"
            /\ bat' = NoBat
            /\ conv' = NewConv(a.input, a.output, Kwargs(a))
            /\ pc' = "conv_validate"
    /\ docx_files' = <<>> /\ idx' = 0 /\ attempts' = <<>> /\ converted' = <<>>
    /\ reported' = <<>> /\ exc' = "none" /\ top_exc' = "none" /\ exit_code' = -1
    /\ runs' = <<>>
    /\ UNCHANGED <<platform, out_opt, dirs, files, zips>>

\* batch_convert called as a function, with the default keyword arguments.
BatchCall(input_dir, output_dir) ==
    /\ CanStart
    /\ nruns' = nruns + 1
    /\ entry' = "api"
    /\ args' = NoArgs
    /\ mode' = "batch"
    /\ bat' = [NoBat EXCEPT !.input_dir = input_dir, !.output_dir = output_dir]
    /\ conv' = NoConv
    /\ pc' = "batch_begin"
    /\ docx_files' = <<>> /\ idx' = 0 /\ attempts' = <<>> /\ converted' = <<>>
    /\ reported' = <<>> /\ exc' = "none" /\ top_exc' = "none" /\ exit_code' = -1
    /\ runs' = <<>>
    /\ UNCHANGED <<platform, out_opt, dirs, files, zips>>

\* Line 188: the single-file call returned, or raised into main's handler.
SingleReturn ==
    /\ pc = "conv_ret"
    /\ mode = "single"
    /\ top_exc' = exc
    /\ pc' = "main_end"
    /\ UNCHANGED <<platform, out_opt, dirs, files, zips, entry, mode, args, bat, docx_files, idx,
                   attempts, converted, reported, conv, exc, exit_code, runs, nruns>>

\* Lines 189-191 and the normal end of main.
MainEnd ==
    /\ pc = "main_end"
    /\ exit_code' = ExitStatus(top_exc)
    /\ pc' = "exited"
    /\ UNCHANGED <<platform, out_opt, dirs, files, zips, entry, mode, args, bat, docx_files, idx,
                   attempts, converted, reported, conv, exc, top_exc, runs, nruns>>

(***************************************************************************)
(* The system                                                              *)
(***************************************************************************)
\* A case-insensitive file system holds no two names that differ in case only.
CaseUnique(L) == \A m, n \in L : LowerSeq(m) = LowerSeq(n) => m = n

Init ==
    /\ platform \in {"posix", "nt"}
    /\ out_opt \in Outputs
    /\ \E L \in SUBSET ChildNames :
          /\ Cardinality(L) <= MaxFiles
          /\ platform = "nt" => CaseUnique(L)
          /\ files = {Append(InDir, n) : n \in L} \cup {Append(SubDir, N_s_docx), BlkFile}
    /\ dirs = {<<>>, InDir, SubDir}
    /\ zips = <<>>
    /\ pc = "idle"
    /\ entry = "main"
    /\ mode = "single"
    /\ args = NoArgs
    /\ bat = NoBat
    /\ docx_files = <<>>
    /\ idx = 0
    /\ attempts = <<>>
    /\ converted = <<>>
    /\ reported = <<>>
    /\ conv = NoConv
    /\ exc = "none"
    /\ top_exc = "none"
    /\ exit_code = -1
    /\ runs = <<>>
    /\ nruns = 0

Next ==
    \/ \E a \in ArgSet : Main(a)
    \/ \E d \in {InDir, Append(InDir, N_c_txt)} : BatchCall(d, out_opt)
    \/ BatchBegin
    \/ BatchIter
    \/ BatchItemDone
    \/ BatchReturn
    \/ ConvValidate
    \/ ConvMkdir
    \/ ConvRun
    \/ ConvZip
    \/ SingleReturn
    \/ MainEnd

Spec == Init /\ [][Next]_vars

(***************************************************************************)
(* create_zip_archive called on its own, on any bundle directory           *)
(***************************************************************************)
N_a == <<"a">>
N_notes == <<"n", ".", "t", "x", "t">>
N_e == <<"e">>
N_stale == <<"s", "t", "a", "l", "e">>

\* The regular files and the directories a bundle b of document n may hold
\* (the output file, when present, is a regular file).
BundleFiles(b, n) ==
    {Append(b, n \o DotTex), Append(b, n \o DotZip), Append(b, N_notes),
     b \o <<MediaName, N_img1>>, b \o <<MediaName, N_x, N_img2>>}
BundleDirs(b) == {Append(b, MediaName), b \o <<MediaName, N_x>>, b \o <<MediaName, N_e>>}

\* Lines 74-85: the call, on a bundle directory that exists.
ArchiveCall(doc_dir, doc_name) ==
    /\ pc = "idle"
    /\ IsDir(doc_dir)
    /\ conv' = [NoConv EXCEPT !.doc_dir = doc_dir, !.doc_name = doc_name]
    /\ pc' = "conv_zip"
    /\ UNCHANGED <<platform, out_opt, dirs, files, zips, entry, mode, args, bat, docx_files,
                   idx, attempts, converted, reported, exc, top_exc, exit_code, runs, nruns>>

InitArchive ==
    /\ platform = "posix"
    /\ out_opt = Some(OutDir)
    /\ \E n \in {N_a, MediaName} :
          LET b == Append(OutDir, n)
          IN  \E F \in SUBSET BundleFiles(b, n), D \in SUBSET BundleDirs(b) :
                 /\ \A q \in F \cup D : \A a \in Prefixes(Parent(q)) : Len(a) > Len(b) => a \in D
                 /\ files = F
                 /\ dirs = {<<>>, OutDir, b} \cup D
                 /\ zips = [z \in F \cap {ZipPath(b, n)} |-> { <<N_stale>> }]
    /\ pc = "idle"
    /\ entry = "api"
    /\ mode = "single"
    /\ args = NoArgs
    /\ bat = NoBat
    /\ docx_files = <<>>
    /\ idx = 0
    /\ attempts = <<>>
    /\ converted = <<>>
    /\ reported = <<>>
    /\ conv = NoConv
    /\ exc = "none"
    /\ top_exc = "none"
    /\ exit_code = -1
    /\ runs = <<>>
    /\ nruns = 0

NextArchive ==
    \/ \E n \in {N_a, MediaName} : ArchiveCall(Append(OutDir, n), n)
    \/ ConvZip

SpecArchive == InitArchive /\ [][NextArchive]_vars

(***************************************************************************)
(* What the specification says, stated without the definitions above       *)
(***************************************************************************)
\* The name ends in an extension equal to .docx when case is ignored.
HasDocxExt(n) ==
    Len(n) > Len(DotDocx) /\ LowerSeq(SubSeq(n, Len(n) - Len(DotDocx) + 1, Len(n))) = DotDocx

\* The base name: the name with that extension stripped.
StripExt(n) == IF HasDocxExt(n) THEN SubSeq(n, 1, Len(n) - Len(DotDocx)) ELSE n

\* The output option the running top-level call was given.
GivenOutput == IF entry = "main" THEN args.output ELSE bat.output_dir

\* <parent>: the given output directory, else the input's own parent
\* (single file) or the input directory itself (batch).
ExpectedParent(input_path) ==
    IF GivenOutput.some THEN GivenOutput.path
    ELSE IF mode = "batch" THEN bat.input_dir ELSE Parent(input_path)

ExpectedBundle(input_path) == Append(ExpectedParent(input_path), StripExt(NameOf(input_path)))
ExpectedTex(input_path) ==
    Append(ExpectedBundle(input_path), StripExt(NameOf(input_path)) \o DotTex)
ExpectedZip(input_path) ==
    Append(ExpectedBundle(input_path), StripExt(NameOf(input_path)) \o DotZip)

Within(b, q) == q = b \/ IsUnder(b, q)

\* The pandoc invocations made for candidate i of the running batch.
RunsOf(i) == {k \in 1..Len(runs) : runs[k].cmd[2].p = docx_files[i]}

(***************************************************************************)
(* Claims                                                                  *)
(***************************************************************************)

\* C1: when batch_convert returns, every candidate was attempted exactly once
\* in enumeration order, with at most one pandoc run each; the returned list
\* holds, in that order, exactly the primary output paths of the candidates
\* whose pandoc run exited 0; every candidate whose run failed (or that failed
\* before its run) is reported and left out, so the list has N - K entries for
\* K failed candidates; with no candidate the list is empty and nothing is raised.
C1_BatchIsolation ==
    (mode = "batch" /\ pc = "batch_ret") =>
        LET N == Len(docx_files)
            ok == {i \in 1..N : \E k \in RunsOf(i) : runs[k].rc = 0}
            extFailed == {i \in 1..N : \E k \in RunsOf(i) : runs[k].rc # 0}
            notRun == {i \in 1..N : RunsOf(i) = {}}
            Nth(k) == CHOOSE i \in ok : Cardinality({j \in ok : j < i}) = k - 1
        IN  /\ attempts = docx_files
            /\ \A i \in 1..N : Cardinality(RunsOf(i)) <= 1
            /\ Len(runs) = N - Cardinality(notRun)
            /\ converted = [k \in 1..Cardinality(ok) |-> ExpectedTex(docx_files[Nth(k)])]
            /\ Len(converted) = N - Cardinality(extFailed) - Cardinality(notRun)
            /\ \A i \in extFailed \cup notRun :
                  /\ \E r \in 1..Len(reported) : reported[r].name = NameOf(docx_files[i])
                  /\ \A k \in 1..Len(converted) : converted[k] # ExpectedTex(docx_files[i])
            /\ Len(reported) = Cardinality(extFailed) + Cardinality(notRun)
            /\ top_exc = "none"
            /\ (N = 0 => converted = <<>>)

\* C1 witness: a batch of two candidates returned after the first failed in
\* pandoc and the second was converted.
C1_Witness ==
    /\ mode = "batch" /\ pc = "batch_ret"
    /\ Len(docx_files) = 2
    /\ Len(runs) = 2 /\ runs[1].rc # 0 /\ runs[2].rc = 0
    /\ Len(converted) = 1

\* C2: after create_zip_archive, the archive at <bundle>/<base-name>.zip holds
\* exactly the primary output file under its own name, if that file exists in
\* the bundle, and every regular file below <bundle>/media under its path
\* relative to the bundle; the archive is written also when the primary output
\* file is absent.
C2_ArchiveEntries ==
    (pc = "conv_ret" /\ conv.zipped) =>
        LET b == conv.doc_dir
            zip == Append(b, conv.doc_name \o DotZip)
            tex == Append(b, conv.doc_name \o DotTex)
            media == Append(b, MediaName)
        IN  /\ zip \in files
            /\ zip \in DOMAIN zips
            /\ zips[zip] = {RelativeTo(f, b) : f \in {g \in files : g = tex \/ IsUnder(media, g)}}

\* C2 witness: an archive written for a bundle without primary output file,
\* with a nested media file, an empty media subdirectory and a stray file.
C2_Witness ==
    /\ pc = "conv_ret" /\ conv.zipped
    /\ Append(conv.doc_dir, conv.doc_name \o DotTex) \notin files
    /\ Append(conv.doc_dir, N_notes) \in files
    /\ conv.doc_dir \o <<MediaName, N_e>> \in dirs
    /\ zips[ZipPath(conv.doc_dir, conv.doc_name)] = { <<MediaName, N_x, N_img2>> }

\* C3: the validation step raises FileNotFoundError exactly when the input
\* path does not exist and ValueError exactly when it exists without a .docx
\* extension (case ignored), changes nothing on disk and runs nothing; and a
\* call that ends with one of the two has made no bundle directory, run no
\* process and written no archive.
C3_ValidationFirst ==
    [][ /\ pc = "conv_validate" =>
            /\ exc' = "FileNotFoundError" <=> conv.input_path \notin dirs \cup files
            /\ exc' = "ValueError" <=>
                  (conv.input_path \in dirs \cup files /\ ~HasDocxExt(NameOf(conv.input_path)))
            /\ exc' # "none" => pc' = "conv_ret"
            /\ ~conv.made_dir /\ conv.ran = 0 /\ ~conv.zipped
            /\ UNCHANGED <<dirs, files, zips, runs>>
        /\ (pc' = "conv_ret" /\ exc' \in {"FileNotFoundError", "ValueError"}) =>
            (~conv'.made_dir /\ conv'.ran = 0 /\ ~conv'.zipped)
      ]_vars

\* C3 witness: a single-file call on an existing file of another extension has
\* ended with ValueError while no bundle directory exists for it.
C3_Witness ==
    /\ pc = "conv_ret" /\ mode = "single" /\ exc = "ValueError"
    /\ conv.input_path \in files
    /\ ExpectedBundle(conv.input_path) \notin dirs

\* C4: main exits 1 exactly when the top-level operation raised.  Single file:
\* exactly when the conversion raised, which every missing input, wrong
\* extension and failed pandoc run does.  Batch: exactly when the output root
\* could not be created; a batch that ran to its end exits 0 whatever the
\* number of reported items.
C4_ExitCode ==
    pc = "exited" =>
        /\ exit_code \in {0, 1}
        /\ exit_code = 1 <=> top_exc # "none"
        /\ mode = "single" =>
              /\ exit_code = 1 <=> exc # "none"
              /\ (conv.input_path \notin dirs \cup files
                    \/ ~HasDocxExt(NameOf(conv.input_path))
                    \/ (runs # <<>> /\ runs[Len(runs)].rc # 0)) => exit_code = 1
        /\ mode = "batch" =>
              /\ exit_code = 1 <=> (\E q \in Prefixes(ExpectedParent(bat.input_dir)) : q \in files)
              /\ exit_code = 1 => top_exc \in {"NotADirectoryError", "FileExistsError"}
              /\ (attempts = docx_files /\ idx = Len(docx_files) + 1) => exit_code = 0

\* C4 witness: a batch of at least one candidate in which every item failed has exited 0.
C4_Witness ==
    /\ pc = "exited" /\ mode = "batch" /\ exit_code = 0
    /\ Len(docx_files) >= 1
    /\ Len(reported) = Len(docx_files)
    /\ \E k \in 1..Len(runs) : runs[k].rc # 0

\* C5: a conversion that succeeded used the bundle directory
\* <parent>/<base-name>, returns <parent>/<base-name>/<base-name>.tex and has
\* written the archive <parent>/<base-name>/<base-name>.zip, where <parent>
\* is the given output directory, else the input's parent (single file) or the
\* input directory (batch): a function of the input path and the output option.
C5_BundleLayout ==
    (pc = "conv_ret" /\ exc = "none") =>
        /\ conv.doc_dir = ExpectedBundle(conv.input_path)
        /\ conv.doc_dir \in dirs
        /\ conv.output_path = ExpectedTex(conv.input_path)
        /\ runs[Len(runs)].cmd[Len(runs[Len(runs)].cmd)] = Arg(ExpectedTex(conv.input_path))
        /\ ExpectedTex(conv.input_path) \in files
        /\ ExpectedZip(conv.input_path) \in files
        /\ ExpectedZip(conv.input_path) \in DOMAIN zips

\* C5 witness: a batch item converted with no output directory given, with
\* the preamble flag off, on a later call of the behaviour.
C5_Witness ==
    /\ pc = "conv_ret" /\ exc = "none" /\ mode = "batch"
    /\ ~GivenOutput.some
    /\ ~conv.standalone
    /\ nruns = 2
    /\ Parent(conv.doc_dir) = bat.input_dir

\* The standalone and extractMedia flags the running call was started with.
GivenStandalone == IF entry = "main" THEN ~args.no_standalone ELSE TRUE
GivenExtractMedia == IF entry = "main" THEN ~args.no_media ELSE TRUE

\* C6: the command run is pandoc, the input path, -s iff standalone,
\* --extract-media <bundle> iff extractMedia, then -o <output path>, in that
\* order; --no-standalone and --no-media each clear their own flag, and both
\* flags are on by default.
C6_CommandLine ==
    \A k \in 1..Len(runs) :
        LET cmd == runs[k].cmd
            inp == cmd[2].p
            head == <<Tok("pandoc"), Arg(inp)>>
            med == <<Tok("--extract-media"), Arg(ExpectedBundle(inp))>>
            out == <<Tok("-o"), Arg(ExpectedTex(inp))>>
        IN  /\ cmd[1] = Tok("pandoc") /\ cmd[2].o = "path"
            /\ (k = Len(runs) /\ conv.ran = 1) => inp = conv.input_path
            /\ cmd = CASE GivenStandalone /\ GivenExtractMedia -> head \o <<Tok("-s")>> \o med \o out
                       [] GivenStandalone /\ ~GivenExtractMedia -> head \o <<Tok("-s")>> \o out
                       [] ~GivenStandalone /\ GivenExtractMedia -> head \o med \o out
                       [] OTHER -> head \o out

\* C6 witness: pandoc has run with --no-standalone given and media extraction on.
C6_Witness ==
    /\ pc = "conv_zip"
    /\ entry = "main" /\ args.no_standalone /\ ~args.no_media
    /\ Len(runs[Len(runs)].cmd) = 6

\* C7 (as claimed): the archive of a successful conversion run with media
\* extraction off has no entry under media/.
C7_NoMediaEntries ==
    (pc = "conv_ret" /\ exc = "none" /\ ~conv.extract_media) =>
        \A e \in zips[ExpectedZip(conv.input_path)] : e[1] # MediaName

\* C8 (as claimed): the candidates of a batch are exactly the immediate
\* children of the input directory whose extension is .docx with case ignored,
\* the rule of single-file mode; nothing below a subdirectory is a candidate;
\* and an input that is no directory raises NotADirectoryError with no
\* directory made.
C8_BatchCandidates ==
    [][ pc = "batch_begin" =>
           IF bat.input_dir \notin dirs
           THEN top_exc' = "NotADirectoryError" /\ dirs' = dirs
           ELSE top_exc' = "none" =>
                  /\ {docx_files'[i] : i \in 1..Len(docx_files')}
                        = {q \in dirs' \cup files' :
                              Len(q) = Len(bat.input_dir) + 1 /\ IsUnder(bat.input_dir, q)
                              /\ HasDocxExt(NameOf(q))}
                  /\ \A i \in 1..Len(docx_files') : Parent(docx_files'[i]) = bat.input_dir
      ]_vars

\* C9: nothing is ever deleted; a pandoc run that exits non-zero ends the call
\* with RuntimeError after that one run, without the archiver and with every
\* archive as it was; and from the failure to the return of the call nothing
\* on disk changes and pandoc is not run again.
C9_FailureLeavesAll ==
    [][ /\ dirs \subseteq dirs' /\ files \subseteq files'
        /\ DOMAIN zips \subseteq DOMAIN zips'
        /\ conv'.ran <= 1
        /\ (Len(runs') = Len(runs) + 1 /\ runs'[Len(runs')].rc # 0) =>
              /\ pc' = "conv_ret" /\ exc' = "RuntimeError"
              /\ conv'.ran = 1 /\ ~conv'.zipped
              /\ zips' = zips
        /\ (pc = "conv_ret" /\ exc = "RuntimeError") =>
              /\ UNCHANGED <<dirs, files, zips, runs>>
              /\ pc' \notin {"conv_run", "conv_zip"}
      ]_vars

\* C9 witness: a run failed in a bundle that holds the output file, media and
\* archive of an earlier successful run.
C9_Witness ==
    /\ pc = "conv_ret" /\ exc = "RuntimeError"
    /\ ExpectedTex(conv.input_path) \in files
    /\ ExpectedZip(conv.input_path) \in DOMAIN zips
    /\ ExpectedBundle(conv.input_path) \o <<MediaName, N_img1>> \in files

\* The bundle directory of candidate i of the running batch.
BundleOfItem(i) == ExpectedBundle(docx_files[i])

\* C10: in a batch, distinct candidates have distinct bundle directories,
\* neither inside the other; every step of the loop writes only inside the
\* bundle of the candidate at the loop's position; and pandoc starts for a
\* candidate only when every earlier candidate has been returned or reported.
C10_OneBundleAtATime ==
    [][ (mode = "batch" /\ pc \in {"batch_loop", "conv_validate", "conv_mkdir", "conv_run",
                                    "conv_zip", "conv_ret"}) =>
           /\ \A i, j \in 1..Len(docx_files) :
                 i # j => ~Within(BundleOfItem(i), BundleOfItem(j))
           /\ \A q \in (dirs' \cup files') \ (dirs \cup files) : Within(BundleOfItem(idx), q)
           /\ \A z \in DOMAIN zips' :
                 (z \notin DOMAIN zips \/ zips'[z] # zips[z]) => Within(BundleOfItem(idx), z)
           /\ pc' = "conv_run" =>
                 /\ Len(converted') + Len(reported') = idx' - 1
                 /\ Len(runs') = Cardinality({i \in 1..(idx' - 1) : RunsOf(i) # {}})
                 /\ conv'.input_path = docx_files[idx']
      ]_vars

\* C10 witness: the second candidate of a batch is being archived while the
\* bundle of the first holds its own archive.
C10_Witness ==
    /\ mode = "batch" /\ pc = "conv_ret" /\ idx = 2 /\ exc = "none"
    /\ Len(converted) = 1
    /\ ExpectedZip(docx_files[1]) \in files
    /\ ExpectedZip(docx_files[2]) \in files

====
